---------------------------- MODULE Spec2Model ----------------------------
(***************************************************************************)
(* Model of backend_app.py: the token deployment backend.                  *)
(*                                                                         *)
(* deploy_contract_backend is modelled one step per statement group that   *)
(* can suspend or fail (a library call, a node call).  Each invocation p   *)
(* has a program counter pc[p], the function's parameters and locals in    *)
(* frame[p], and the value it returned (or the exception that left it) in  *)
(* result[p].  The node is the environment: every call to it either        *)
(* answers or raises, and the transactions sent to it are mined by the     *)
(* environment action Mine.                                                *)
(***************************************************************************)
EXTENDS Integers, Sequences, FiniteSets, TLC

VARIABLES
    RPC_URL,                 \* module global, read from the environment
    w3,                      \* module global w3: None or the Web3 client
    PRIVATE_KEY,             \* module global, read from the environment
    CONTRACT_ARTIFACT_PATH,  \* module global, read from the environment
    FEE_RECIPIENT_ADDRESS,   \* module global, read from the environment
    route,                   \* request p to /deploy-token: position, data, response
    chainNonce,              \* the node: transaction count of the deployer account
    chainTx,                 \* the node: what became of the transaction whose hash p holds
    pc,                      \* position of invocation p in deploy_contract_backend
    frame,                   \* parameters and locals of invocation p
    result,                  \* what invocation p returned, or the exception that left it
    calls,                   \* calls[p][op]: how often invocation p called op
    hist                     \* history of invocation p: failing step, error, fallback taken

vars == <<RPC_URL, w3, PRIVATE_KEY, CONTRACT_ARTIFACT_PATH, FEE_RECIPIENT_ADDRESS,
          route, chainNonce, chainTx, pc, frame, result, calls, hist>>

---------------------------------------------------------------------------
(* Bounds of the model *)

MaxNonce == 5          \* initial transaction count of the account is 0..MaxNonce
MaxEstimateK == 2      \* gas estimates are 21000 * k, k in 1..MaxEstimateK
MaxGasPrice == 2       \* live gas prices are 1..MaxGasPrice (wei)
MaxChainId == 2        \* chain ids are 1..MaxChainId

(* Program constants *)

GasBuffer == 100000        \* 'gas': gas_estimate + 100000
ReceiptTimeout == 300      \* wait_for_transaction_receipt(tx_hash, timeout=300)
GweiInWei == 1000000000    \* web3 unit table: 1 gwei = 10^9 wei

Procs == {1, 2}

None == [none |-> TRUE]    \* Python's None

---------------------------------------------------------------------------
(* The environment: keys, files, node answers *)

(* Private keys: "" is the unset key (os.environ.get('PRIVATE_KEY', '')),   *)
(* "0xnothex" is no private key encoding, "0x01" is one.                   *)
Keys == {"", "0xnothex", "0x01"}
ValidKeys == {"0x01"}

(* w3.eth.account.from_key: the account of a valid key, ValueError otherwise *)
AddressOf(key) == <<"address-of", key>>

(* Artifact paths: "" is the unset path.  FileSystem gives what is at each. *)
Paths == {"", "missing.json", "binary.json", "garbage.json", "array.json", "string.json",
          "number.json",
          "noabi.json", "nobytecode.json",
          "badabi.json", "Token.json"}

(* What a file holds: bytes that are no UTF-8 text, text that is no JSON,   *)
(* a JSON value that is no object (of the Python type json.load gives), or *)
(* a JSON object with its fields                                            *)
NotUtf8 == [utf8 |-> FALSE]
NotJson == [json |-> FALSE]
JsonValue(type) == [json |-> TRUE, value |-> type]
JsonDoc(fields) == [json |-> TRUE, doc |-> fields]

FileSystem(path) ==
    CASE path = "binary.json"     -> NotUtf8
      [] path = "garbage.json"    -> NotJson
      [] path = "array.json"      -> JsonValue("list")
      [] path = "string.json"     -> JsonValue("str")
      [] path = "number.json"     -> JsonValue("int")
      [] path = "noabi.json"      -> JsonDoc([bytecode |-> "0x6080"])
      [] path = "nobytecode.json" -> JsonDoc([abi |-> "ctor(string,string,uint256,address)"])
      [] path = "badabi.json"     -> JsonDoc([abi |-> "{}", bytecode |-> "0x6080"])
      [] path = "Token.json"      -> JsonDoc([abi |-> "ctor(string,string,uint256,address)",
                                              bytecode |-> "0x6080"])
      [] OTHER                    -> None

(* w3.eth.contract accepts an abi that is a list of signatures *)
IsAbi(abi) == abi # "{}"

(* os.path.exists *)
PathExists(path) == FileSystem(path) # None

(* Error texts of the node's RPC errors *)
RpcMsgs == {<<"execution reverted">>, <<"insufficient funds">>}

Exc(type, msg) == [type |-> type, msg |-> msg]

RpcErrors == {Exc("RpcError", m) : m \in RpcMsgs}

(* ChainClient failures: each operation may fail with any of these *)
NodeErrors ==
    {Exc("NodeUnreachable", <<"connection refused">>), Exc("Timeout", <<"read timed out">>)}
        \cup RpcErrors

(* str(e), as the f-strings interpolate it *)
Str(e) == e.msg

GasEstimates == {21000 * k : k \in 1..MaxEstimateK}
GasPrices == 1..MaxGasPrice
ChainIds == 1..MaxChainId

(* What the environment may answer in a run: full answers for a single      *)
(* invocation, one answer per query for concurrent invocations.            *)
FullEnv == [estimates |-> GasEstimates, prices |-> GasPrices, chainIds |-> ChainIds,
            errors |-> NodeErrors]
SmallEnv == [estimates |-> {21000}, prices |-> {1}, chainIds |-> {1},
             errors |-> RpcErrors]

(* web3.to_wei(n, 'gwei') *)
ToWei(n, unit) == IF unit = "gwei" THEN n * GweiInWei ELSE n

---------------------------------------------------------------------------
(* Operations a invocation may call *)

Ops == {"isConnected", "getNonce", "estimateGas", "getGasPrice", "chainId",
        "submit", "waitForReceipt", "getTransaction",
        "from_key", "load", "build", "sign"}

ChainClientOps == {"isConnected", "getNonce", "estimateGas", "getGasPrice",
                   "chainId", "submit", "waitForReceipt", "getTransaction"}

NoCalls == [op \in Ops |-> 0]

NoFrame == [w3_instance |-> "None", artifact_path |-> "", private_key |-> "",
            constructor_args |-> None, account |-> None, contract |-> None, nonce |-> None,
            gas_estimate |-> None, gas_price_to_use |-> None, chain_id |-> None,
            transaction |-> None, signed_transaction |-> None,
            tx_hash |-> None, tx_receipt |-> None]

NoHist == [stage |-> "none", err |-> None, fallback |-> FALSE, diag |-> "none",
           printed |-> None]

NoResult == None

(* A request to /deploy-token: what request.get_json() gives.  NoData is    *)
(* None or any other falsy body (line 149).  An object is a record of its   *)
(* two fields, where a field that is missing or empty is "" (both are falsy *)
(* at line 156).  A body that is JSON, truthy and no object (an array, a    *)
(* string, a number) has no get method.                                     *)
NoData == [nodata |-> TRUE]
NotObject(type) == [json |-> type]
IsObject(data) == DOMAIN data = {"name", "symbol"}
Requests == {NoData,
             NotObject("list"), NotObject("str"), NotObject("int"),
             [name |-> "", symbol |-> "ALP"],
             [name |-> "Alpha", symbol |-> ""],
             [name |-> "Alpha", symbol |-> "ALP"]}

NoRoute == [at |-> "listening", request |-> NoData, args |-> None, response |-> None,
            isConnected |-> 0]

(* jsonify(body), status *)
Response(status, body) == [status |-> status, body |-> body]

(* The returned dicts *)
ErrorResult(text) == [error |-> text]
SuccessResult(addr) == [contractAddress |-> addr]
(* An exception that leaves the function instead of a returned value *)
Raised(e) == [raised |-> e]

IsFailure(r) == DOMAIN r = {"error"}
IsSuccess(r) == DOMAIN r = {"contractAddress"}
IsRaised(r) == DOMAIN r = {"raised"}

(* Lines 13-36: the module reads its configuration and builds w3 once.       *)
(* w3 stays None when RPC_URL is unset or Web3(...) raised.                 *)
Init ==
    /\ RPC_URL \in {"None", "https://rpc.example"}
    /\ w3 \in IF RPC_URL = "None" THEN {"None"} ELSE {"None", "Web3"}
    /\ PRIVATE_KEY \in Keys
    /\ CONTRACT_ARTIFACT_PATH \in Paths
    /\ FEE_RECIPIENT_ADDRESS \in {"None", "0xFeeRecipient"}
    /\ route = [p \in Procs |-> NoRoute]
    /\ chainNonce \in 0..MaxNonce
    /\ chainTx = [p \in Procs |-> "none"]
    /\ pc = [p \in Procs |-> "idle"]
    /\ frame = [p \in Procs |-> NoFrame]
    /\ result = [p \in Procs |-> NoResult]
    /\ calls = [p \in Procs |-> NoCalls]
    /\ hist = [p \in Procs |-> NoHist]

---------------------------------------------------------------------------
(* deploy_contract_backend, step by step *)

Returned(p) == pc[p] = "returned"
Escaped(p) == pc[p] = "raised"
Ended(p) == Returned(p) \/ Escaped(p)

Called(p, op) == calls' = [calls EXCEPT ![p][op] = @ + 1]
Count(p, op) == calls[p][op]

(* return r, from the step named stage, after the error e (None: no error) *)
Return(p, r, stage, e) ==
    /\ pc' = [pc EXCEPT ![p] = "returned"]
    /\ result' = [result EXCEPT ![p] = r]
    /\ hist' = [hist EXCEPT ![p].stage = stage, ![p].err = e]

(* Lines 137-139: except Exception as e: return {"error": f"An unexpected error occurred: {e}"} *)
UnexpectedError_NoText(e) == ErrorResult(<<"An unexpected error occurred">>)

UnexpectedError(e) == ErrorResult(<<"An unexpected error occurred: ", Str(e)>>)

CatchAll(p, stage, e) == Return(p, UnexpectedError(e), stage, e)

(* An exception raised outside the try block leaves the function *)
Escape(p, stage, e) ==
    /\ pc' = [pc EXCEPT ![p] = "raised"]
    /\ result' = [result EXCEPT ![p] = Raised(e)]
    /\ hist' = [hist EXCEPT ![p].stage = stage, ![p].err = e]

Goto(p, label) ==
    /\ pc' = [pc EXCEPT ![p] = label]
    /\ UNCHANGED <<result, hist>>

config == <<RPC_URL, w3, PRIVATE_KEY, CONTRACT_ARTIFACT_PATH, FEE_RECIPIENT_ADDRESS>>
chain == <<chainNonce, chainTx>>

(* What Flask answers when the view function raises *)
InternalServerError == Response(500, <<"Internal Server Error">>)

(* As Rejection, without the check of the fee recipient *)
Rejection_FeeUnchecked(data, fee) ==
    IF data = NoData
    THEN Response(400, [error |-> <<"Invalid JSON">>])
    ELSE IF ~IsObject(data)
    THEN InternalServerError
    ELSE IF data.name = "" \/ data.symbol = ""
    THEN Response(400, [error |-> <<"Missing token name or symbol">>])
    ELSE None

(* Lines 147-162: what deploy_token answers before it deploys anything, or  *)
(* None when the request and the fee recipient are there.  data.get of      *)
(* line 153 raises AttributeError on a body that is no object: the          *)
(* exception leaves deploy_token before the fee recipient is looked at.     *)
Rejection(data, fee) ==
    IF data = NoData
    THEN Response(400, [error |-> <<"Invalid JSON">>])
    ELSE IF ~IsObject(data)
    THEN InternalServerError
    ELSE IF data.name = "" \/ data.symbol = ""
    THEN Response(400, [error |-> <<"Missing token name or symbol">>])
    ELSE IF fee = "None"
    THEN Response(500, [error |-> <<"Backend configuration error: Fee recipient address not set.">>])
    ELSE None

(* Lines 144-164: deploy_token reads the request and checks the configuration *)
ReceiveRequest(p) ==
    /\ route[p].at = "listening"
    /\ \E data \in Requests :
          LET no == Rejection(data, FEE_RECIPIENT_ADDRESS) IN
          IF no # None
          THEN route' = [route EXCEPT ![p].request = data, ![p].response = no,
                                      ![p].at = "responded"]
          ELSE route' = [route EXCEPT ![p].request = data, ![p].at = "arguments"]
    /\ UNCHANGED <<config, chain, pc, frame, result, calls, hist>>

(* Amounts in wei exceed the integers of the checker: digits * 10^zeros *)
(* w3.to_wei(0.01, 'ether'), and the 10**16 of line 174 *)
EtherToWei(hundredths) == [digits |-> hundredths, zeros |-> 16]
FallbackMarketCap == [digits |-> 1, zeros |-> 16]

(* The constructor arguments deploy_token passes (lines 177-182) *)
ConstructorArgs(data, cap, fee) == <<data.name, data.symbol, cap, fee>>

(* Lines 169-182: the market cap, with or without the client, and the       *)
(* constructor arguments.  w3.is_connected() is called outside any try.     *)
PrepareArguments(p, env) ==
    /\ route[p].at = "arguments"
    /\ UNCHANGED <<config, chain, pc, frame, result, calls, hist>>
    /\ IF w3 = "None"
       THEN route' = [route EXCEPT ![p].at = "call",
                        ![p].args = ConstructorArgs(route[p].request, FallbackMarketCap,
                                                    FEE_RECIPIENT_ADDRESS)]
       ELSE \/ route' = [route EXCEPT ![p].at = "call", ![p].isConnected = @ + 1,
                           ![p].args = ConstructorArgs(route[p].request, EtherToWei(1),
                                                       FEE_RECIPIENT_ADDRESS)]
            \/ route' = [route EXCEPT ![p].at = "call", ![p].isConnected = @ + 1,
                           ![p].args = ConstructorArgs(route[p].request, FallbackMarketCap,
                                                       FEE_RECIPIENT_ADDRESS)]
            \/ /\ env.errors # {}
               /\ route' = [route EXCEPT ![p].at = "responded", ![p].isConnected = @ + 1,
                              ![p].response = InternalServerError]

(* Lines 185-190: deploy_token calls deploy_contract_backend with the globals *)
Call(p) ==
    /\ route[p].at = "call"
    /\ pc[p] = "idle"
    /\ route' = [route EXCEPT ![p].at = "deploying"]
    /\ frame' = [frame EXCEPT ![p].w3_instance = w3,
                              ![p].artifact_path = CONTRACT_ARTIFACT_PATH,
                              ![p].private_key = PRIVATE_KEY,
                              ![p].constructor_args = route[p].args]
    /\ Goto(p, "preconditions")
    /\ UNCHANGED <<config, chain, calls>>

(* Lines 192-196: the response made of the deployment result; an exception  *)
(* that left deploy_contract_backend leaves deploy_token too                *)
ResponseOf(r) ==
    IF "contractAddress" \in DOMAIN r
    THEN Response(200, [tokenAddress |-> r.contractAddress])
    ELSE IF "error" \in DOMAIN r
    THEN Response(500, [error |-> r.error])
    ELSE InternalServerError

(* As Respond, but a deployment that timed out is looked up again and its  *)
(* result revised when the transaction was mined after all                  *)
Respond_Reconciles(p) ==
    /\ route[p].at = "deploying"
    /\ Ended(p)
    /\ UNCHANGED <<config, chain, pc, frame, calls, hist>>
    /\ IF chainTx[p] = "success" /\ ~("contractAddress" \in DOMAIN result[p])
       THEN /\ result' = [result EXCEPT ![p] =
                   SuccessResult(<<"contract-of", frame[p].transaction.from,
                                   frame[p].transaction.nonce>>)]
            /\ route' = [route EXCEPT ![p].at = "responded",
                                      ![p].response = ResponseOf(result'[p])]
       ELSE /\ route' = [route EXCEPT ![p].at = "responded",
                                      ![p].response = ResponseOf(result[p])]
            /\ UNCHANGED result

Respond(p) ==
    /\ route[p].at = "deploying"
    /\ Ended(p)
    /\ route' = [route EXCEPT ![p].at = "responded", ![p].response = ResponseOf(result[p])]
    /\ UNCHANGED <<config, chain, pc, frame, result, calls, hist>>

(* Lines 42-47, the checks that need no call: the text of the error to     *)
(* return, or <<>> when key, path and client are all there                  *)
NotConnected == <<"Backend not connected to network. RPC_URL: ", RPC_URL>>

MissingConfig_KeyUnchecked(f) ==
    IF f.artifact_path = ""
    THEN <<"CONTRACT_ARTIFACT_PATH environment variable not set.">>
    ELSE IF f.w3_instance = "None"
    THEN NotConnected
    ELSE <<>>

MissingConfig(f) ==
    IF f.private_key = ""
    THEN <<"Private key not configured in environment variables.">>
    ELSE IF f.artifact_path = ""
    THEN <<"CONTRACT_ARTIFACT_PATH environment variable not set.">>
    ELSE IF f.w3_instance = "None"
    THEN NotConnected
    ELSE <<>>

(* Lines 42-47: is_connected() is called only when nothing is missing; it   *)
(* answers True or False, or raises, and line 46 is outside the try block   *)
CheckPreconditions(p, env) ==
    /\ pc[p] = "preconditions"
    /\ UNCHANGED <<config, route, chain, frame>>
    /\ IF MissingConfig(frame[p]) # <<>>
       THEN /\ Return(p, ErrorResult(MissingConfig(frame[p])), "preconditions", None)
            /\ UNCHANGED calls
       ELSE /\ Called(p, "isConnected")
            /\ \/ Goto(p, "artifact_exists")
               \/ Return(p, ErrorResult(NotConnected), "preconditions", None)
               \/ \E e \in env.errors : Escape(p, "preconditions", e)

(* As CheckArtifactExists, but the artifact is loaded before the key is used *)
CheckArtifactExists_SkipsDerive(p) ==
    /\ pc[p] = "artifact_exists"
    /\ UNCHANGED <<config, route, chain, frame, calls>>
    /\ IF ~PathExists(frame[p].artifact_path)
       THEN Return(p, ErrorResult(<<"Contract artifact file not found at ", frame[p].artifact_path,
                                    ". Ensure contract is compiled and path is correct.">>),
                   "artifact_exists", None)
       ELSE Goto(p, "load")

(* Lines 51-52 *)
CheckArtifactExists(p) ==
    /\ pc[p] = "artifact_exists"
    /\ UNCHANGED <<config, route, chain, frame, calls>>
    /\ IF ~PathExists(frame[p].artifact_path)
       THEN Return(p, ErrorResult(<<"Contract artifact file not found at ", frame[p].artifact_path,
                                    ". Ensure contract is compiled and path is correct.">>),
                   "artifact_exists", None)
       ELSE Goto(p, "from_key")

(* Line 59: w3.eth.account.from_key(private_key) *)
InvalidKeyError == Exc("ValueError", <<"The private key must be exactly 32 bytes long">>)

(* As DeriveAccount, but a key that does not derive is tried once more *)
DeriveAccount_Retries(p) ==
    /\ pc[p] = "from_key"
    /\ Called(p, "from_key")
    /\ UNCHANGED <<config, route, chain>>
    /\ IF frame[p].private_key \in ValidKeys
       THEN /\ frame' = [frame EXCEPT ![p].account = [address |-> AddressOf(frame[p].private_key)]]
            /\ Goto(p, "load")
       ELSE IF Count(p, "from_key") = 0
       THEN /\ hist' = [hist EXCEPT ![p].stage = "from_key", ![p].err = InvalidKeyError]
            /\ UNCHANGED <<pc, result, frame>>
       ELSE /\ CatchAll(p, "from_key", InvalidKeyError)
            /\ UNCHANGED frame

DeriveAccount(p) ==
    /\ pc[p] = "from_key"
    /\ Called(p, "from_key")
    /\ UNCHANGED <<config, route, chain>>
    /\ IF frame[p].private_key \in ValidKeys
       THEN /\ frame' = [frame EXCEPT ![p].account = [address |-> AddressOf(frame[p].private_key)]]
            /\ Goto(p, "load")
       ELSE /\ CatchAll(p, "from_key", InvalidKeyError)
            /\ UNCHANGED frame

(* Lines 62-74: open, json.load, the two fields, w3.eth.contract *)
KeyError(field) == Exc("KeyError", <<"'", field, "'">>)
(* str(e) of the OSError that open raises: the errno, its text and the      *)
(* repr of the file name                                                    *)
OpenError(path) == Exc("PermissionError", <<"[Errno 13] Permission denied: '", path, "'">>)
BadAbiError == Exc("ValueError", <<"abi is not a list">>)

(* json.load reads the file as text: bytes that are no UTF-8 raise         *)
(* UnicodeDecodeError, a ValueError that is no JSONDecodeError              *)
DecodeError ==
    Exc("UnicodeDecodeError",
        <<"'utf-8' codec can't decode byte 0xff in position 0: invalid start byte">>)

(* Line 65: contract_json['abi'] on a value that is no dict *)
SubscriptError(type) ==
    Exc("TypeError",
        IF type = "list" THEN <<"list indices must be integers or slices, not str">>
        ELSE IF type = "str" THEN <<"string indices must be integers, not 'str'">>
        ELSE <<"'", type, "' object is not subscriptable">>)

LoadArtifact(p) ==
    LET path == frame[p].artifact_path
        file == FileSystem(path)
    IN
    /\ pc[p] = "load"
    /\ Called(p, "load")
    /\ UNCHANGED <<config, route, chain>>
    /\ \/ \* the file went away after the check of line 51: FileNotFoundError
          /\ Return(p, ErrorResult(<<"Contract artifact file not found at ", path,
                                     ". Ensure contract is compiled.">>),
                    "load", Exc("FileNotFoundError", <<"No such file">>))
          /\ UNCHANGED frame
       \/ \* open fails otherwise
          /\ CatchAll(p, "load", OpenError(path))
          /\ UNCHANGED frame
       \/ \* the file is read
          IF "utf8" \in DOMAIN file
          THEN /\ CatchAll(p, "load", DecodeError)
               /\ UNCHANGED frame
          ELSE IF ~file.json
          THEN /\ Return(p, ErrorResult(<<"Could not decode JSON from ", path,
                                          ". Ensure it's a valid JSON file.">>),
                         "load", Exc("JSONDecodeError", <<"Expecting value">>))
               /\ UNCHANGED frame
          ELSE IF "value" \in DOMAIN file
          THEN /\ CatchAll(p, "load", SubscriptError(file.value))
               /\ UNCHANGED frame
          ELSE IF "abi" \notin DOMAIN file.doc
          THEN /\ CatchAll(p, "load", KeyError("abi"))
               /\ UNCHANGED frame
          ELSE IF "bytecode" \notin DOMAIN file.doc
          THEN /\ CatchAll(p, "load", KeyError("bytecode"))
               /\ UNCHANGED frame
          ELSE IF ~IsAbi(file.doc.abi)
          THEN /\ CatchAll(p, "load", BadAbiError)
               /\ UNCHANGED frame
          ELSE /\ frame' = [frame EXCEPT ![p].contract =
                               [abi |-> file.doc.abi, bytecode |-> file.doc.bytecode]]
               /\ Goto(p, "get_nonce")

(* Line 75: w3.eth.get_transaction_count(account.address) *)
GetNonce(p, env) ==
    /\ pc[p] = "get_nonce"
    /\ Called(p, "getNonce")
    /\ UNCHANGED <<config, route, chain>>
    /\ \/ /\ Goto(p, "estimate_gas")
          /\ frame' = [frame EXCEPT ![p].nonce = chainNonce]
       \/ /\ \E e \in env.errors : CatchAll(p, "get_nonce", e)
          /\ UNCHANGED frame

(* Lines 78-85: Contract.constructor(...).estimate_gas(...) *)
EstimateGas(p, env) ==
    /\ pc[p] = "estimate_gas"
    /\ Called(p, "estimateGas")
    /\ UNCHANGED <<config, route, chain, result>>
    /\ \/ /\ pc' = [pc EXCEPT ![p] = "gas_price"]
          /\ \E g \in env.estimates : frame' = [frame EXCEPT ![p].gas_estimate = g]
          /\ UNCHANGED hist
       \/ /\ \E e \in env.errors : hist' = [hist EXCEPT ![p].stage = "estimate_gas", ![p].err = e]
          /\ pc' = [pc EXCEPT ![p] = "estimate_failed"]
          /\ UNCHANGED frame

(* Lines 86-92: the handler of a failed estimate looks the gas price up for  *)
(* its log line, then returns the estimation error                          *)
EstimateGasError(e) ==
    ErrorResult(<<"Error estimating gas: ", Str(e),
                  ". Check testnet ETH balance and constructor args.">>)

(* Line 89: the price the handler prints, in wei (the log shows it in gwei) *)
Printed(g) == [wei |-> g]

(* As EstimateFailed, but the price that was looked up goes into the reason *)
EstimateFailed_PriceInReason(p, env) ==
    /\ pc[p] = "estimate_failed"
    /\ Called(p, "getGasPrice")
    /\ UNCHANGED <<config, route, chain, frame>>
    /\ pc' = [pc EXCEPT ![p] = "returned"]
    /\ \/ \E g \in env.prices :
             /\ hist' = [hist EXCEPT ![p].diag = "price", ![p].printed = Printed(g)]
             /\ result' = [result EXCEPT ![p] =
                    ErrorResult(<<"Error estimating gas: ", Str(hist[p].err),
                                  ". Current gas price: ", <<g>>>>)]
       \/ /\ \E e \in env.errors : hist' = [hist EXCEPT ![p].diag = "failed"]
          /\ result' = [result EXCEPT ![p] = EstimateGasError(hist[p].err)]

(* As EstimateFailed, but a failed price lookup replaces the estimation error *)
EstimateFailed_PriceErrorWins(p, env) ==
    /\ pc[p] = "estimate_failed"
    /\ Called(p, "getGasPrice")
    /\ UNCHANGED <<config, route, chain, frame>>
    /\ pc' = [pc EXCEPT ![p] = "returned"]
    /\ \/ /\ \E g \in env.prices :
                hist' = [hist EXCEPT ![p].diag = "price", ![p].printed = Printed(g)]
          /\ result' = [result EXCEPT ![p] = EstimateGasError(hist[p].err)]
       \/ /\ \E e \in env.errors : hist' = [hist EXCEPT ![p].diag = "failed"]
          /\ \E e \in env.errors : result' = [result EXCEPT ![p] = UnexpectedError(e)]

EstimateFailed(p, env) ==
    /\ pc[p] = "estimate_failed"
    /\ Called(p, "getGasPrice")
    /\ UNCHANGED <<config, route, chain, frame>>
    /\ pc' = [pc EXCEPT ![p] = "returned"]
    /\ result' = [result EXCEPT ![p] = EstimateGasError(hist[p].err)]
    /\ \/ \E g \in env.prices :
             hist' = [hist EXCEPT ![p].diag = "price", ![p].printed = Printed(g)]
       \/ \E e \in env.errors : hist' = [hist EXCEPT ![p].diag = "failed"]

(* Lines 94-99: the live gas price, or 1 gwei when the node does not give it *)
FallbackGasPrice_Wei == ToWei(1, "wei")

FallbackGasPrice == ToWei(1, "gwei")

GetGasPrice(p, env) ==
    /\ pc[p] = "gas_price"
    /\ Called(p, "getGasPrice")
    /\ UNCHANGED <<config, route, chain, result>>
    /\ pc' = [pc EXCEPT ![p] = "chain_id"]
    /\ \/ /\ \E g \in env.prices : frame' = [frame EXCEPT ![p].gas_price_to_use = g]
          /\ UNCHANGED hist
       \/ /\ \E e \in env.errors : hist' = [hist EXCEPT ![p].fallback = TRUE]
          /\ frame' = [frame EXCEPT ![p].gas_price_to_use = FallbackGasPrice]

(* Line 107: w3.eth.chain_id, evaluated for the dict build_transaction gets *)
GetChainId(p, env) ==
    /\ pc[p] = "chain_id"
    /\ Called(p, "chainId")
    /\ UNCHANGED <<config, route, chain>>
    /\ \/ /\ Goto(p, "build")
          /\ \E c \in env.chainIds : frame' = [frame EXCEPT ![p].chain_id = c]
       \/ /\ \E e \in env.errors : CatchAll(p, "chain_id", e)
          /\ UNCHANGED frame

(* Lines 102-108: build_transaction *)
GasLimit_NoBuffer(gas_estimate) == gas_estimate

GasLimit(gas_estimate) == gas_estimate + GasBuffer

BuiltTransaction(f) ==
    [from |-> f.account.address,
     nonce |-> f.nonce,
     gas |-> GasLimit(f.gas_estimate),
     gasPrice |-> f.gas_price_to_use,
     chainId |-> f.chain_id,
     data |-> <<f.contract.bytecode, f.constructor_args>>]

BuildError == Exc("ValueError", <<"cannot build transaction">>)

BuildTransaction(p) ==
    /\ pc[p] = "build"
    /\ Called(p, "build")
    /\ UNCHANGED <<config, route, chain>>
    /\ \/ /\ frame' = [frame EXCEPT ![p].transaction = BuiltTransaction(frame[p])]
          /\ Goto(p, "sign")
       \/ /\ CatchAll(p, "build", BuildError)
          /\ UNCHANGED frame

(* Line 111: w3.eth.account.sign_transaction(transaction, private_key) *)
Signed(tx, key) ==
    [rawTransaction |-> <<"raw", tx, AddressOf(key)>>, hash |-> <<"hash", tx>>]

SignError == Exc("TypeError", <<"transaction is malformed">>)

SignTransaction(p) ==
    /\ pc[p] = "sign"
    /\ Called(p, "sign")
    /\ UNCHANGED <<config, route, chain>>
    /\ \/ /\ frame' = [frame EXCEPT ![p].signed_transaction =
                          Signed(frame[p].transaction, frame[p].private_key)]
          /\ Goto(p, "send")
       \/ /\ CatchAll(p, "sign", SignError)
          /\ UNCHANGED frame

(* The invocations whose transaction the node holds under the hash of the   *)
(* transaction p signed: equal transactions of one key have one hash        *)
Known(p) ==
    {q \in Procs \ {p} :
        /\ chainTx[q] # "none"
        /\ frame[q].signed_transaction.hash = frame[p].signed_transaction.hash}

(* As SendRawTransaction, but the nonce is fetched again and the            *)
(* transaction rebuilt with it right before it is sent                      *)
SendRawTransaction_Refetches(p, env) ==
    /\ pc[p] = "send"
    /\ calls' = [calls EXCEPT ![p]["submit"] = @ + 1, ![p]["getNonce"] = @ + 1]
    /\ UNCHANGED <<config, route, chainNonce>>
    /\ \/ /\ frame' = [frame EXCEPT ![p].tx_hash = frame[p].signed_transaction.hash,
                                    ![p].nonce = chainNonce,
                                    ![p].transaction.nonce = chainNonce]
          /\ chainTx' = [chainTx EXCEPT ![p] = "pending"]
          /\ Goto(p, "wait")
       \/ /\ \E e \in env.errors : CatchAll(p, "send", e)
          /\ UNCHANGED <<frame, chainTx>>

(* Line 115: w3.eth.send_raw_transaction(signed_transaction.rawTransaction). *)
(* The node takes a transaction whose nonce is not below the account's.     *)
(* It keeps transactions by hash: sent the transaction it already holds, it *)
(* answers with the hash again (or with an error, as for any send).         *)
SendRawTransaction(p, env) ==
    /\ pc[p] = "send"
    /\ Called(p, "submit")
    /\ UNCHANGED <<config, route, chainNonce>>
    /\ \/ /\ Known(p) = {}
          /\ frame[p].transaction.nonce >= chainNonce
          /\ Goto(p, "wait")
          /\ chainTx' = [chainTx EXCEPT ![p] = "pending"]
          /\ frame' = [frame EXCEPT ![p].tx_hash = frame[p].signed_transaction.hash]
       \/ /\ \E q \in Known(p) : chainTx' = [chainTx EXCEPT ![p] = chainTx[q]]
          /\ Goto(p, "wait")
          /\ frame' = [frame EXCEPT ![p].tx_hash = frame[p].signed_transaction.hash]
       \/ /\ \E e \in env.errors : CatchAll(p, "send", e)
          /\ UNCHANGED <<frame, chainTx>>

(* The node mines a pending transaction that carries the account's next     *)
(* nonce: the creation succeeds or reverts, and the count goes up.  Every   *)
(* invocation that holds the hash of this transaction sees it mined.        *)
Mine(p) ==
    /\ chainTx[p] = "pending"
    /\ frame[p].transaction.nonce = chainNonce
    /\ \E status \in {"success", "reverted"} :
          chainTx' = [q \in Procs |-> IF q = p \/ q \in Known(p) THEN status ELSE chainTx[q]]
    /\ chainNonce' = chainNonce + 1
    /\ UNCHANGED <<config, route, pc, frame, result, calls, hist>>

(* The address of a created contract follows from the sender and the nonce *)
ContractAddress(tx) == <<"contract-of", tx.from, tx.nonce>>

Receipt(p) ==
    [status |-> IF chainTx[p] = "success" THEN 1 ELSE 0,
     contractAddress |-> ContractAddress(frame[p].transaction)]

(* Line 121: tx_receipt.status == 1 *)
ReceiptSucceeded_Inverted(receipt) == receipt.status = 0

ReceiptSucceeded(receipt) == receipt.status = 1

(* web3's TimeExhausted *)
TimeExhausted(tx_hash, timeout) ==
    Exc("TimeExhausted",
        <<"Transaction ", tx_hash, " is not in the chain after ", timeout, " seconds">>)

(* As WaitForReceipt, but a timeout sends the transaction again *)
WaitForReceipt_Resubmits(p, env) ==
    /\ pc[p] = "wait"
    /\ Called(p, "waitForReceipt")
    /\ UNCHANGED <<config, route, chain>>
    /\ \/ /\ chainTx[p] \in {"success", "reverted"}
          /\ frame' = [frame EXCEPT ![p].tx_receipt = Receipt(p)]
          /\ IF ReceiptSucceeded(Receipt(p))
             THEN Return(p, SuccessResult(Receipt(p).contractAddress), "wait", None)
             ELSE Goto(p, "receipt_failed")
       \/ /\ chainTx[p] = "pending"
          /\ Count(p, "submit") < 2
          /\ pc' = [pc EXCEPT ![p] = "send"]
          /\ hist' = [hist EXCEPT ![p].stage = "wait",
                                  ![p].err = TimeExhausted(frame[p].tx_hash, ReceiptTimeout)]
          /\ UNCHANGED <<frame, result>>
       \/ /\ \E e \in env.errors : CatchAll(p, "wait", e)
          /\ UNCHANGED frame

(* Lines 119-127: wait_for_transaction_receipt(tx_hash, timeout=300), then   *)
(* the branch on tx_receipt.status                                          *)
WaitForReceipt(p, env) ==
    /\ pc[p] = "wait"
    /\ Called(p, "waitForReceipt")
    /\ UNCHANGED <<config, route, chain>>
    /\ \/ /\ chainTx[p] \in {"success", "reverted"}
          /\ frame' = [frame EXCEPT ![p].tx_receipt = Receipt(p)]
          /\ IF ReceiptSucceeded(Receipt(p))
             THEN Return(p, SuccessResult(Receipt(p).contractAddress), "wait", None)
             ELSE Goto(p, "receipt_failed")
       \/ /\ chainTx[p] = "pending"
          /\ CatchAll(p, "wait", TimeExhausted(frame[p].tx_hash, ReceiptTimeout))
          /\ UNCHANGED frame
       \/ /\ \E e \in env.errors : CatchAll(p, "wait", e)
          /\ UNCHANGED frame

(* Lines 128-135: a failed receipt: look the transaction up for the log,    *)
(* then return the fixed error                                              *)
TransactionFailed ==
    ErrorResult(<<"Transaction failed during deployment. Check testnet explorer.">>)

(* As ReceiptFailed, but a failed lookup is reported instead *)
ReceiptFailed_FetchErrorWins(p, env) ==
    /\ pc[p] = "receipt_failed"
    /\ Called(p, "getTransaction")
    /\ UNCHANGED <<config, route, chain, frame>>
    /\ pc' = [pc EXCEPT ![p] = "returned"]
    /\ \/ /\ hist' = [hist EXCEPT ![p].stage = "receipt", ![p].diag = "transaction"]
          /\ result' = [result EXCEPT ![p] = TransactionFailed]
       \/ \E e \in env.errors :
             /\ hist' = [hist EXCEPT ![p].stage = "receipt", ![p].diag = "failed"]
             /\ result' = [result EXCEPT ![p] = UnexpectedError(e)]

ReceiptFailed(p, env) ==
    /\ pc[p] = "receipt_failed"
    /\ Called(p, "getTransaction")
    /\ UNCHANGED <<config, route, chain, frame>>
    /\ pc' = [pc EXCEPT ![p] = "returned"]
    /\ result' = [result EXCEPT ![p] = TransactionFailed]
    /\ \/ hist' = [hist EXCEPT ![p].stage = "receipt", ![p].diag = "transaction"]
       \/ \E e \in env.errors : hist' = [hist EXCEPT ![p].stage = "receipt", ![p].diag = "failed"]

---------------------------------------------------------------------------
(* One request to /deploy-token and the invocation of                       *)
(* deploy_contract_backend it makes, the node answering from env            *)
Step(p, env) ==
    \/ ReceiveRequest(p)
    \/ PrepareArguments(p, env)
    \/ Call(p)
    \/ Respond(p)
    \/ CheckPreconditions(p, env)
    \/ CheckArtifactExists(p)
    \/ DeriveAccount(p)
    \/ LoadArtifact(p)
    \/ GetNonce(p, env)
    \/ EstimateGas(p, env)
    \/ EstimateFailed(p, env)
    \/ GetGasPrice(p, env)
    \/ GetChainId(p, env)
    \/ BuildTransaction(p)
    \/ SignTransaction(p)
    \/ SendRawTransaction(p, env)
    \/ WaitForReceipt(p, env)
    \/ ReceiptFailed(p, env)
    \/ Mine(p)

(* A single invocation *)
Next == Step(1, FullEnv)

Spec == Init /\ [][Next]_vars

(* Two concurrent invocations, as two requests to /deploy-token give *)
NextConcurrent == \E p \in Procs : Step(p, SmallEnv)

SpecConcurrent == Init /\ [][NextConcurrent]_vars

(* Every step of Next moves the handler, the invocation or the transaction *)
progress == <<[p \in Procs |-> route[p].at], pc, chainTx>>

(* A single invocation that is not held up: every call to the node answers  *)
(* or fails, and the wait for the receipt ends after its timeout at most    *)
FairSpec == Spec /\ WF_progress(Next)

---------------------------------------------------------------------------
(* Properties *)

Started(p) == pc[p] # "idle"
TextOf(r) == r.error

(* C1: an invocation whose private key is absent returns the configuration  *)
(* error of the missing key at its first step and calls no ChainClient      *)
(* operation (nor any other step), whatever the path and the client are.    *)
C1_NoKeyNoChainCalls ==
    \A p \in Procs :
        (Started(p) /\ frame[p].private_key = "") =>
            /\ pc[p] \in {"preconditions", "returned"}
            /\ \A op \in Ops : Count(p, op) = 0
            /\ Returned(p) =>
                 result[p] = [error |-> <<"Private key not configured in environment variables.">>]

C1_Witness ==
    \E p \in Procs :
        /\ Returned(p)
        /\ frame[p].private_key = ""
        /\ frame[p].artifact_path = "Token.json"
        /\ frame[p].w3_instance = "Web3"
        /\ IsFailure(result[p])

(* The reasons of a missing precondition or a missing artifact file *)
ConfigurationReasons(p) ==
    { <<"Private key not configured in environment variables.">>,
      <<"CONTRACT_ARTIFACT_PATH environment variable not set.">>,
      <<"Backend not connected to network. RPC_URL: ", RPC_URL>>,
      <<"Contract artifact file not found at ", frame[p].artifact_path,
        ". Ensure contract is compiled and path is correct.">> }

ArtifactMissing(p) ==
    frame[p].artifact_path = "" \/ ~PathExists(frame[p].artifact_path)

(* C2: an invocation whose artifact path is absent or names no existing     *)
(* file ends in a Failure with a configuration or not-found reason, and     *)
(* derives no identity and makes no nonce, gas, price or submit call.       *)
C2_MissingArtifactFails ==
    \A p \in Procs :
        (Started(p) /\ ArtifactMissing(p)) =>
            /\ \A op \in {"from_key", "getNonce", "estimateGas", "getGasPrice", "submit"} :
                   Count(p, op) = 0
            /\ Ended(p) =>
                 /\ IsFailure(result[p])
                 /\ TextOf(result[p]) \in ConfigurationReasons(p)

(* C3: when the gas price lookup of lines 94-99 fails, the invocation goes  *)
(* on with 1 gwei: the transaction it builds carries that price, and once   *)
(* the transaction is signed submit is called exactly once.                 *)
C3_PriceFallbackProceeds ==
    \A p \in Procs :
        hist[p].fallback =>
            /\ frame[p].gas_price_to_use = 1 * GweiInWei
            /\ pc[p] \in {"chain_id", "build", "sign", "send", "wait", "receipt_failed", "returned"}
            /\ Ended(p) => hist[p].stage \in {"chain_id", "build", "sign", "send", "wait", "receipt"}
            /\ frame[p].transaction # None => frame[p].transaction.gasPrice = 1 * GweiInWei
            /\ (frame[p].signed_transaction # None /\ pc[p] # "send") => Count(p, "submit") = 1

C3_Witness ==
    \E p \in Procs :
        /\ hist[p].fallback
        /\ pc[p] = "wait"
        /\ chainTx[p] = "pending"
        /\ Count(p, "submit") = 1
        /\ frame[p].transaction.gasPrice = 1 * GweiInWei

EstimateFailedAt(p) == hist[p].stage = "estimate_gas"

(* C4: when estimate_gas fails the invocation returns the gas estimation    *)
(* error built from that failure alone, whether the price lookup of the     *)
(* handler answers or fails, and never builds, signs or submits.            *)
C4_EstimateFailureIsPrimary ==
    \A p \in Procs :
        EstimateFailedAt(p) =>
            /\ pc[p] \in {"estimate_failed", "returned"}
            /\ \A op \in {"build", "sign", "submit"} : Count(p, op) = 0
            /\ Returned(p) =>
                 /\ hist[p].diag \in {"price", "failed"}
                 /\ result[p] = [error |-> <<"Error estimating gas: ", hist[p].err.msg,
                                             ". Check testnet ETH balance and constructor args.">>]
                 /\ Len(TextOf(result[p])) > 0

C4_Witness ==
    \E p \in Procs :
        /\ EstimateFailedAt(p)
        /\ Returned(p)
        /\ hist[p].diag = "failed"
        /\ IsFailure(result[p])

TimedOut(p) ==
    /\ hist[p].stage = "wait"
    /\ hist[p].err # None
    /\ hist[p].err.type = "TimeExhausted"

(* C5: when the wait for the receipt runs out after a submit, the           *)
(* invocation returns a Failure whose reason carries the timeout of 300     *)
(* seconds, and submit has been called once and is never called again.      *)
C5_TimeoutFailsWithoutResubmit ==
    \A p \in Procs :
        TimedOut(p) =>
            /\ Returned(p)
            /\ result[p] = [error |-> <<"An unexpected error occurred: ",
                                        <<"Transaction ", frame[p].tx_hash,
                                          " is not in the chain after ", 300, " seconds">> >>]
            /\ Count(p, "submit") = 1
            /\ Count(p, "waitForReceipt") = 1

C5_Witness ==
    \E p \in Procs :
        /\ TimedOut(p)
        /\ Returned(p)
        /\ IsFailure(result[p])
        /\ Count(p, "submit") = 1

(* C6: the built transaction has gas = estimate + 100000, the nonce the     *)
(* node gave, the gas price determined and the chain id the node reports.   *)
C6_BuiltTransactionFields ==
    \A p \in Procs :
        frame[p].transaction # None =>
            /\ frame[p].transaction.gas = frame[p].gas_estimate + 100000
            /\ frame[p].transaction.nonce = frame[p].nonce
            /\ frame[p].transaction.gasPrice = frame[p].gas_price_to_use
            /\ frame[p].transaction.chainId = frame[p].chain_id
            /\ frame[p].gas_estimate \in GasEstimates
            /\ frame[p].chain_id \in ChainIds
            /\ frame[p].gas_price_to_use \in GasPrices \cup {1 * GweiInWei}

C6_Witness ==
    \E p \in Procs :
        /\ frame[p].transaction # None
        /\ frame[p].nonce = 5
        /\ frame[p].gas_estimate = 21000
        /\ frame[p].gas_price_to_use = 1
        /\ frame[p].transaction.gas = 121000
        /\ frame[p].transaction.chainId = frame[p].chain_id

GotReceipt(p) == frame[p].tx_receipt # None

(* C7: once the receipt with status success is there (so every earlier      *)
(* step succeeded), the invocation has returned Success with exactly the    *)
(* contract address of that receipt.                                        *)
C7_SuccessReturnsReceiptAddress ==
    \A p \in Procs :
        (GotReceipt(p) /\ frame[p].tx_receipt.status = 1) =>
            /\ Returned(p)
            /\ result[p] = [contractAddress |-> frame[p].tx_receipt.contractAddress]
            /\ chainTx[p] = "success"
            /\ \A op \in {"isConnected", "getNonce", "estimateGas", "getGasPrice", "chainId",
                          "submit", "waitForReceipt"} : Count(p, op) = 1

C7_Witness ==
    \E p \in Procs :
        /\ GotReceipt(p)
        /\ frame[p].tx_receipt.status = 1
        /\ IsSuccess(result[p])
        /\ ~hist[p].fallback

(* C8: after a receipt with status failure the invocation returns the       *)
(* fixed "transaction failed" Failure, never a contract address, whether    *)
(* the follow-up lookup of the transaction answers or fails.                *)
C8_RevertedReceiptFails ==
    \A p \in Procs :
        (GotReceipt(p) /\ frame[p].tx_receipt.status # 1) =>
            /\ pc[p] \in {"receipt_failed", "returned"}
            /\ ~IsSuccess(result[p])
            /\ Returned(p) =>
                 /\ hist[p].diag \in {"transaction", "failed"}
                 /\ result[p] = [error |->
                        <<"Transaction failed during deployment. Check testnet explorer.">>]

C8_Witness ==
    \E p \in Procs :
        /\ GotReceipt(p)
        /\ frame[p].tx_receipt.status = 0
        /\ Returned(p)
        /\ hist[p].diag = "failed"

(* C9: every invocation that ends has returned one DeploymentResult,        *)
(* Success or Failure: no exception leaves deploy_contract_backend.         *)
C9_NoExceptionEscapes ==
    \A p \in Procs :
        /\ ~Escaped(p)
        /\ Ended(p) => (IsFailure(result[p]) \/ IsSuccess(result[p]))

SameInputs(p, q) ==
    /\ frame[p].w3_instance = frame[q].w3_instance
    /\ frame[p].artifact_path = frame[q].artifact_path
    /\ frame[p].private_key = frame[q].private_key
    /\ frame[p].constructor_args = frame[q].constructor_args

FailedAtSameStage(p, q) ==
    /\ Returned(p) /\ Returned(q)
    /\ IsFailure(result[p]) /\ IsFailure(result[q])
    /\ SameInputs(p, q)
    /\ hist[p].stage = hist[q].stage

(* The failures whose reason the code builds from the exception *)
ReasonFromException(p) ==
    /\ Returned(p)
    /\ IsFailure(result[p])
    /\ hist[p].err # None
    /\ hist[p].err.type \notin {"FileNotFoundError", "JSONDecodeError"}

(* Both failed without an exception, or with exceptions of the same type *)
SameErrorKind(p, q) ==
    \/ hist[p].err = None /\ hist[q].err = None
    \/ /\ hist[p].err # None /\ hist[q].err # None
       /\ hist[p].err.type = hist[q].err.type

(* C10 as claimed: two invocations that fail at the same stage with the     *)
(* same inputs and the same kind of error return the same result,           *)
(* whatever the error texts were.                                           *)
C10_ReasonIgnoresErrorText ==
    \A p, q \in Procs :
        (FailedAtSameStage(p, q) /\ SameErrorKind(p, q)) => result[p] = result[q]

(* C10 as amended: the reason embeds the text of the exception when the     *)
(* failure is a gas estimation failure or is caught by the catch-all        *)
(* handler; two invocations that fail at the same stage with the same       *)
(* inputs and the same error return the same result.                        *)
C10_ReasonEmbedsErrorText ==
    /\ \A p \in Procs :
          ReasonFromException(p) =>
              /\ Len(TextOf(result[p])) >= 2
              /\ TextOf(result[p])[2] = hist[p].err.msg
    /\ \A p, q \in Procs :
          (FailedAtSameStage(p, q) /\ hist[p].err = hist[q].err) => result[p] = result[q]

C10_Witness ==
    \E p, q \in Procs :
        /\ FailedAtSameStage(p, q)
        /\ hist[p].stage = "get_nonce"
        /\ hist[p].err.type = hist[q].err.type
        /\ hist[p].err.msg # hist[q].err.msg
        /\ result[p] # result[q]

PriceFreeReason(p) ==
    <<"Error estimating gas: ", hist[p].err.msg,
      ". Check testnet ETH balance and constructor args.">>

PriceLookedUp(p) ==
    /\ EstimateFailedAt(p)
    /\ Returned(p)
    /\ hist[p].printed # None

(* C11 as claimed: when estimate_gas fails and the price lookup of the      *)
(* handler answers, the returned reason carries that price, so it is more   *)
(* than the text made of the estimation error alone.                        *)
C11_ReasonCarriesGasPrice ==
    \A p \in Procs :
        PriceLookedUp(p) => TextOf(result[p]) # PriceFreeReason(p)

(* C11 as amended: the price that was looked up is only printed; the        *)
(* returned reason is the text made of the estimation error alone, the      *)
(* same three parts for every price.                                        *)
C11_GasPriceOnlyPrinted ==
    \A p \in Procs :
        PriceLookedUp(p) =>
            /\ hist[p].printed.wei \in GasPrices
            /\ Count(p, "getGasPrice") = 1
            /\ Len(TextOf(result[p])) = 3
            /\ TextOf(result[p]) = PriceFreeReason(p)

C11_Witness ==
    \E p \in Procs :
        /\ PriceLookedUp(p)
        /\ hist[p].printed.wei = 2
        /\ IsFailure(result[p])

(* The file of the artifact path is there and is no JSON, or lacks a field *)
Malformed(path) ==
    LET file == FileSystem(path) IN
    /\ PathExists(path)
    /\ \/ "utf8" \in DOMAIN file
       \/ ~file.json
       \/ "value" \in DOMAIN file
       \/ {"abi", "bytecode"} \ DOMAIN file.doc # {}

(* The load step opened the file: it did not fail with an error of open *)
FileRead(p) ==
    /\ Count(p, "load") = 1
    /\ pc[p] # "load"
    /\ hist[p].err # None
    /\ hist[p].err.type \notin {"FileNotFoundError", "PermissionError"}

(* The one reason of the load step that tells a malformed artifact (line 71) *)
MalformedReason(path) ==
    <<"Could not decode JSON from ", path, ". Ensure it's a valid JSON file.">>

ChainQueries == {"getNonce", "estimateGas", "getGasPrice", "submit"}

(* C12: an invocation that reads an artifact file that does not parse, or   *)
(* that parses and lacks the abi or the bytecode, returns a Failure at the  *)
(* load step whose reason tells a malformed artifact, and never calls       *)
(* getNonce, estimateGas, getGasPrice or submit.                            *)
C12_MalformedArtifactFailsAtLoad ==
    \A p \in Procs :
        (Started(p) /\ Malformed(frame[p].artifact_path)) =>
            /\ \A op \in ChainQueries : Count(p, op) = 0
            /\ FileRead(p) =>
                 /\ Returned(p)
                 /\ IsFailure(result[p])
                 /\ hist[p].stage = "load"
                 /\ TextOf(result[p]) = MalformedReason(frame[p].artifact_path)

(* What holds of C12 on the code: a malformed artifact ends the invocation  *)
(* at the load step, in a returned Failure, before any query of the node    *)
MalformedArtifactStopsAtLoad ==
    \A p \in Procs :
        (Started(p) /\ Malformed(frame[p].artifact_path)) =>
            /\ \A op \in ChainQueries : Count(p, op) = 0
            /\ pc[p] \in {"preconditions", "artifact_exists", "from_key", "load",
                          "returned", "raised"}
            /\ (Count(p, "load") = 1 /\ pc[p] # "load") =>
                 /\ Returned(p)
                 /\ IsFailure(result[p])
                 /\ hist[p].stage = "load"

ValidRequest(data) == IsObject(data) /\ data.name # "" /\ data.symbol # ""

(* C13: with no fee recipient configured, deploy_token answers a request    *)
(* at once and never calls deploy_contract_backend nor any ChainClient      *)
(* operation; a request with name and symbol gets the configuration error.  *)
C13_NoFeeRecipientNoDeployment ==
    \A p \in Procs :
        (FEE_RECIPIENT_ADDRESS = "None" /\ route[p].at # "listening") =>
            /\ route[p].at = "responded"
            /\ pc[p] = "idle"
            /\ route[p].isConnected = 0
            /\ \A op \in Ops : Count(p, op) = 0
            /\ route[p].response.status \in {400, 500}
            /\ ValidRequest(route[p].request) =>
                 route[p].response =
                     [status |-> 500,
                      body |-> [error |-> <<"Backend configuration error: Fee recipient address not set.">>]]

C13_Witness ==
    \E p \in Procs :
        /\ FEE_RECIPIENT_ADDRESS = "None"
        /\ route[p].at = "responded"
        /\ ValidRequest(route[p].request)
        /\ w3 = "Web3"
        /\ PRIVATE_KEY = "0x01"
        /\ route[p].response.status = 500

(* The steps in the order of the code, and the step each operation is *)
Stages == <<"preconditions", "artifact_exists", "from_key", "load", "get_nonce",
            "estimate_gas", "gas_price", "chain_id", "build", "sign", "send", "wait",
            "receipt">>

Pipeline == <<"isConnected", "from_key", "load", "getNonce", "estimateGas", "getGasPrice",
              "chainId", "build", "sign", "submit", "waitForReceipt">>

StageOf(op) ==
    CASE op = "isConnected"    -> "preconditions"
      [] op = "from_key"       -> "from_key"
      [] op = "load"           -> "load"
      [] op = "getNonce"       -> "get_nonce"
      [] op = "estimateGas"    -> "estimate_gas"
      [] op = "getGasPrice"    -> "gas_price"
      [] op = "chainId"        -> "chain_id"
      [] op = "build"          -> "build"
      [] op = "sign"           -> "sign"
      [] op = "submit"         -> "send"
      [] op = "waitForReceipt" -> "wait"
      [] op = "getTransaction" -> "receipt"

Rank(stage) == CHOOSE i \in 1..Len(Stages) : Stages[i] = stage

(* The price lookup of the handler of a failed estimate is no pipeline step *)
DiagnosticLookup(p, op) == op = "getGasPrice" /\ hist[p].stage = "estimate_gas"

(* C14: the steps are taken in the order of the pipeline: an operation is   *)
(* called only after every operation before it was called, nothing is       *)
(* called after the step that failed, and submit is called only with a      *)
(* transaction built from a fetched nonce and estimate and then signed.     *)
C14_StepsInFixedOrder ==
    \A p \in Procs :
        /\ \A i \in 2..Len(Pipeline) :
               Count(p, Pipeline[i]) > 0 => Count(p, Pipeline[i - 1]) > 0
        /\ Count(p, "isConnected") > 0 =>
               /\ frame[p].private_key # ""
               /\ frame[p].artifact_path # ""
        /\ Count(p, "from_key") > 0 => PathExists(frame[p].artifact_path)
        /\ Count(p, "load") > 0 => frame[p].account # None
        /\ Count(p, "getNonce") > 0 => frame[p].contract # None
        /\ Count(p, "sign") > 0 => frame[p].transaction # None
        /\ Count(p, "submit") > 0 =>
               /\ frame[p].signed_transaction # None
               /\ \A op \in {"getNonce", "estimateGas", "build", "sign"} : Count(p, op) = 1
               /\ hist[p].stage \in {"none", "send", "wait", "receipt"}
        /\ Count(p, "waitForReceipt") > 0 => chainTx[p] # "none"
        /\ hist[p].stage # "none" =>
               \A op \in ChainClientOps \cup {"from_key", "load", "build", "sign"} :
                   (Rank(StageOf(op)) > Rank(hist[p].stage) /\ ~DiagnosticLookup(p, op))
                       => Count(p, op) = 0

C14_Witness ==
    \E p \in Procs :
        /\ pc[p] = "wait"
        /\ \A i \in 1..(Len(Pipeline) - 1) : Count(p, Pipeline[i]) = 1
        /\ Count(p, "waitForReceipt") = 0
        /\ hist[p].fallback

(* C15: no step is retried: an invocation calls every operation at most     *)
(* once, on the failure paths too.                                          *)
C15_EachOperationAtMostOnce ==
    \A p \in Procs : \A op \in Ops : Count(p, op) <= 1

C15_Witness ==
    \E p \in Procs :
        /\ Returned(p)
        /\ IsFailure(result[p])
        /\ hist[p].stage = "receipt"
        /\ \A op \in ChainClientOps : Count(p, op) = 1

DerivationFailed(p) == hist[p].stage = "from_key"

(* C16: when the key does not derive an account the invocation returns a    *)
(* Failure at once: derivation was tried once, the artifact is not loaded   *)
(* and no nonce, gas, price or submit call is made.                         *)
C16_InvalidKeyIsFatal ==
    \A p \in Procs :
        /\ DerivationFailed(p) =>
              /\ Returned(p)
              /\ result[p] = [error |-> <<"An unexpected error occurred: ", hist[p].err.msg>>]
              /\ hist[p].err.type = "ValueError"
              /\ Count(p, "from_key") = 1
        /\ (Started(p) /\ frame[p].private_key \notin ValidKeys) =>
              /\ frame[p].account = None
              /\ \A op \in {"load", "getNonce", "estimateGas", "getGasPrice", "submit"} :
                     Count(p, op) = 0
              /\ (Count(p, "from_key") > 0 /\ pc[p] # "from_key") => DerivationFailed(p)

C16_Witness ==
    \E p \in Procs :
        /\ DerivationFailed(p)
        /\ Returned(p)
        /\ frame[p].private_key = "0xnothex"
        /\ frame[p].artifact_path = "Token.json"
        /\ IsFailure(result[p])

(* Every invocation ends: it returns, or an exception leaves it *)
EveryInvocationEnds == \A p \in Procs : Started(p) ~> Ended(p)

(* C17: every invocation that started eventually ends in Confirmed or       *)
(* Failed, that is, it returns a Success or a Failure.                      *)
C17_EndsInConfirmedOrFailed ==
    \A p \in Procs :
        Started(p) ~> (Returned(p) /\ (IsSuccess(result[p]) \/ IsFailure(result[p])))

Submitted(p) == Count(p, "submit") > 0

(* C18: the nonce a submitted transaction carries is the one the single     *)
(* getNonce of the invocation gave, however far the account's count has     *)
(* moved since: it is never fetched again.                                  *)
C18_NonceFetchedOnce ==
    \A p \in Procs :
        Submitted(p) =>
            /\ Count(p, "getNonce") = 1
            /\ frame[p].transaction.nonce = frame[p].nonce
            /\ frame[p].nonce <= chainNonce

(* Two concurrent invocations were given the same nonce and both sent a     *)
(* transaction that carries it; one was mined, the other waits in vain      *)
C18_Witness ==
    \E p, q \in Procs :
        /\ p # q
        /\ Count(p, "submit") = 1 /\ Count(q, "submit") = 1
        /\ frame[p].transaction.nonce = frame[q].transaction.nonce
        /\ frame[p].transaction.from = frame[q].transaction.from
        /\ chainTx[p] = "success"
        /\ chainTx[q] = "pending"
        /\ frame[q].nonce < chainNonce

(* C19: once the wait for the receipt has timed out the invocation is       *)
(* over: whatever happens next (the transaction may be mined), its Failure  *)
(* stays as returned and it calls nothing more.                             *)
C19_TimeoutIsFinal ==
    [][\A p \in Procs :
          TimedOut(p) =>
              /\ IsFailure(result[p])
              /\ result'[p] = result[p]
              /\ calls'[p] = calls[p]
              /\ pc'[p] = pc[p]]_progress

(* The invocation returned a Failure for a transaction that was then mined  *)
(* and created the contract                                                 *)
C19_Witness ==
    \E p \in Procs :
        /\ TimedOut(p)
        /\ IsFailure(result[p])
        /\ chainTx[p] = "success"
        /\ route[p].at = "responded"
        /\ route[p].response.status = 500

ReceiptSuccess(p) == GotReceipt(p) /\ frame[p].tx_receipt.status = 1

(* C20: an invocation that ended returned a Success, after exactly one      *)
(* submit and a receipt with status success, or else a Failure, which       *)
(* carries no contract address.                                             *)
C20_SuccessOnlyAfterSuccessReceipt ==
    \A p \in Procs :
        Ended(p) =>
            \/ /\ IsSuccess(result[p])
               /\ Count(p, "submit") = 1
               /\ ReceiptSuccess(p)
            \/ /\ IsFailure(result[p])
               /\ ~ReceiptSuccess(p)

(* What holds of C20 on the code: the same, of the invocations that returned *)
ReturnedSuccessOnlyAfterSuccessReceipt ==
    \A p \in Procs :
        Returned(p) =>
            \/ /\ IsSuccess(result[p])
               /\ Count(p, "submit") = 1
               /\ ReceiptSuccess(p)
            \/ /\ IsFailure(result[p])
               /\ ~ReceiptSuccess(p)

=============================================================================
